---- MODULE Spec2Model ----
(***************************************************************************)
(* Coverage comparison of the news front end: the feed's story and compare *)
(* handlers (src/src/components/newsfeed.js), the CompareCoverage view     *)
(* (src/src/components/CompareCoverage.js and the copy of it that          *)
(* newsfeed.js carries), the bias labelling helpers and the bias analysis  *)
(* of fetched articles (src/src/components/NewsFeed.js).  Further parts    *)
(* model the service workers, the articles query and its retries, the      *)
(* search inputs, the two theme providers and the recent searches of the   *)
(* sidebar.                                                                *)
(*                                                                         *)
(* JavaScript values are represented as follows.  A bias label is a tuple  *)
(* of one-character strings, so that String.prototype.toLowerCase is a map *)
(* over characters; the empty tuple stands for a falsy label (undefined,   *)
(* null or '').  An identifier is a tuple of tokens, so that 'temp_' + id  *)
(* is concatenation.  A story payload is a record whose has* fields say    *)
(* which properties the JSON object carries.                               *)
(***************************************************************************)
EXTENDS Integers, Sequences, FiniteSets, TLC

VARIABLES
    selectedStory,   \* newsfeed.js NewsFeed: useState(null)
    inflight,        \* requests awaiting their response
    nextReq,         \* number the next user request gets
    appError,        \* app.js App: useState(null), set by the onError prop
    alertShown,      \* the text of the last window.alert, "" for none
    impl,            \* which copy of CompareCoverage is mounted
    mounted,         \* a CompareCoverage instance is on screen
    propStory,       \* its story prop
    propStoryId,     \* its storyId prop (<<>> when not passed)
    storyData,       \* CompareCoverage: useState(story)
    loading,         \* CompareCoverage: useState(!story && !!storyId)
    error,           \* CompareCoverage: useState(null), "" for null
    nfArticles,      \* NewsFeed.js: the articles fetchArticles returned
    feedArticles,    \* newsfeed.js: articlesData.pages.flatMap(page => page.articles)
    stories,         \* newsfeed.js: storiesData.pages.flatMap(page => page.storyGroups)
    screen,          \* what the last render drew
    worker,          \* the service worker script that is registered
    swCaches,        \* cache name -> the URLs it holds, in the order of cache.keys()
    swHandlers,      \* fetch handlers that have not answered yet
    swPuts,          \* cache.put calls that have not completed yet
    swLast,          \* the last answer a fetch handler gave
    swNext,          \* number the next fetch event gets
    articlesQuery,   \* NewsFeed.js: the state of useInfiniteQuery(['articles', ...])
    retryAttempts,   \* NewsFeed.js: useState({}), retry key -> attempts
    retryCalls,      \* calls of handleRetry that have not returned yet
    searchBox,       \* the component that holds the search input, and its value
    searchClock,     \* the time in ms
    searchTimers,    \* setTimeout callbacks of the search input that are pending
    searchTyped,     \* the values the input received, with the time of each
    searchCalls,     \* the searches that were triggered
    themeState,      \* part_004 ThemeProvider: the state of useReducer(themeReducer, ...)
    themeStorage,    \* localStorage: the three thenarrative_* items
    themeDom,        \* part_004 ThemeProvider: mounted, the class on <html>, applyTheme runs
    ctxMounted,      \* ThemeContext.js: the provider is mounted
    ctxTheme,        \* ThemeContext.js: useState(...) theme
    ctxStorage,      \* localStorage: the item 'the-narrative-theme', "" when absent
    ctxSystem,       \* the colour scheme of the system
    ctxDom,          \* the values data-theme of <html> was given, in order
    ctxToggled,      \* the user has used toggleTheme
    searchQuery,     \* App.js: useState('') searchQuery
    sidebarMounted,  \* SidebarWithFilters is on screen
    recentSearches,  \* SidebarWithFilters.js: useState([]) recentSearches
    recentStorage    \* localStorage: the item 'thenarrative_recent_searches'

vars == <<selectedStory, inflight, nextReq, appError, alertShown, impl,
          mounted, propStory, propStoryId, storyData, loading, error,
          nfArticles, feedArticles, stories, screen,
          worker, swCaches, swHandlers, swPuts, swLast, swNext, articlesQuery,
          retryAttempts, retryCalls,
          searchBox, searchClock, searchTimers, searchTyped, searchCalls,
          themeState, themeStorage, themeDom,
          ctxMounted, ctxTheme, ctxStorage, ctxSystem, ctxDom, ctxToggled,
          searchQuery, sidebarMounted, recentSearches, recentStorage>>

\* The variables of the comparison flow, and the others.
flowVars == <<selectedStory, inflight, nextReq, appError, alertShown, impl,
              mounted, propStory, propStoryId, storyData, loading, error>>

analysisVars == <<nfArticles>>

feedVars == <<feedArticles, stories>>

compareVars == <<mounted, propStory, propStoryId, storyData, loading, error>>

renderVars == <<screen>>

swVars == <<worker, swCaches, swHandlers, swPuts, swLast, swNext>>

queryVars == <<articlesQuery>>

retryVars == <<retryAttempts, retryCalls>>

searchVars == <<searchBox, searchClock, searchTimers, searchTyped, searchCalls>>

\* The variables of the feed and of the service worker, and those of the
\* other components.
appVars == <<flowVars, analysisVars, feedVars, renderVars, swVars, queryVars, retryVars>>

themeVars == <<themeState, themeStorage, themeDom>>

ctxVars == <<ctxMounted, ctxTheme, ctxStorage, ctxSystem, ctxDom, ctxToggled>>

recentVars == <<searchQuery, sidebarMounted, recentSearches, recentStorage>>

widgetVars == <<searchVars, themeVars, ctxVars, recentVars>>

\* What the actions of one part leave alone.
nonFlowVars == <<analysisVars, feedVars, renderVars, swVars, queryVars, retryVars, widgetVars>>

nonAnalysisVars == <<flowVars, feedVars, renderVars, swVars, queryVars, retryVars, widgetVars>>

nonFeedVars == <<flowVars, analysisVars, renderVars, swVars, queryVars, retryVars, widgetVars>>

nonRenderVars == <<flowVars, analysisVars, feedVars, swVars, queryVars, retryVars, widgetVars>>

nonSwVars == <<flowVars, analysisVars, feedVars, renderVars, queryVars, retryVars, widgetVars>>

nonQueryVars == <<flowVars, analysisVars, feedVars, renderVars, swVars, retryVars, widgetVars>>

nonRetryVars == <<flowVars, analysisVars, feedVars, renderVars, swVars, widgetVars>>

nonSearchVars == <<appVars, themeVars, ctxVars, recentVars>>

nonThemeVars == <<appVars, searchVars, ctxVars, recentVars>>

nonCtxVars == <<appVars, searchVars, themeVars, recentVars>>

nonRecentVars == <<appVars, searchVars, themeVars, ctxVars>>

(***************************************************************************)
(* Bounds of the model.                                                    *)
(***************************************************************************)
MaxRequests == 3

(***************************************************************************)
(* Bias labels.                                                            *)
(***************************************************************************)
L_left == <<"l", "e", "f", "t">>
L_center == <<"c", "e", "n", "t", "e", "r">>
L_right == <<"r", "i", "g", "h", "t">>
L_unknown == <<"u", "n", "k", "n", "o", "w", "n">>
L_LEFT == <<"L", "E", "F", "T">>
L_Right == <<"R", "i", "g", "h", "t">>
L_banana == <<"b", "a", "n", "a", "n", "a">>
L_none == <<>>

Truthy(s) == s # <<>>

\* a || b on strings
OrElse(a, b) == IF Truthy(a) THEN a ELSE b

(***************************************************************************)
(* Articles the feed shows.  hasSource says whether article.source is an   *)
(* object; sourceName is article.source.name ("" when it has none).        *)
(* biasConfidence is in percent (0.85 is 85); biasReasoning is "" when the *)
(* article has none.                                                       *)
(***************************************************************************)
Article(id, bias, hasSource, name, confidence, reasoning) ==
    [_id |-> id, articleBias |-> bias, hasSource |-> hasSource, sourceName |-> name,
     biasConfidence |-> confidence, biasReasoning |-> reasoning]

ArtCenter == Article("a1", L_center, TRUE, "Reuters", 90, "neutral wording")
ArtLeft == Article("a2", L_left, TRUE, "", 70, "")
ArtNoSource == Article("a3", L_right, FALSE, "", 90, "framing")
ArtNoBias == Article("a4", L_none, TRUE, "AP", 0, "")
ArtBanana == Article("a5", L_banana, TRUE, "Blog", 90, "tone")

FeedArticles == {ArtCenter, ArtNoBias, ArtBanana}

(***************************************************************************)
(* Story payloads.                                                         *)
(***************************************************************************)
Biases == {"left", "center", "right"}

NoDistribution == [l \in {} |-> 0]

\* kind is "null" for null/undefined and "object" for a JSON object.
\* left, center and right are articlesByBias.left, .center and .right;
\* unknown is any further key of articlesByBias, which the view never reads.
Story(kind, id, hasStoryGroup, hasByBias, left, center, right, missing) ==
    [kind |-> kind, _id |-> id,
     hasStoryGroup |-> hasStoryGroup, hasByBias |-> hasByBias,
     left |-> left, center |-> center, right |-> right,
     missingBiases |-> missing,
     unknown |-> <<>>,
     articles |-> <<>>, biasDistribution |-> NoDistribution]

NullStory == Story("null", <<>>, FALSE, FALSE, <<>>, <<>>, <<>>, {})

StoryIds == {<<"s1">>, <<"s2">>}

\* The service workers of the repository, and their caches.
Workers == {"service-worker.js", "part_005"}

STATIC_CACHE == "thenarrative-v2.0.0-static"

DYNAMIC_CACHE == "thenarrative-v2.0.0-dynamic"

API_CACHE == "thenarrative-v2.0.0-api"

IMAGE_CACHE == "thenarrative-v2.0.0-images"

\* CACHE_NAME of part_005
TWOSIDES_CACHE == "twosides-v2.0.0"

CacheNames == {STATIC_CACHE, DYNAMIC_CACHE, API_CACHE, IMAGE_CACHE, TWOSIDES_CACHE}

NoCaches == [c \in CacheNames |-> <<>>]

\* The answer before any fetch event was handled.
NoAnswer == [n |-> 0, url |-> "", route |-> "", from |-> "", status |-> 0]

\* The service worker part of the initial state: no worker is installed.
InitNoWorker ==
    /\ worker = "service-worker.js"
    /\ swCaches = NoCaches
    /\ swHandlers = {}
    /\ swPuts = {}
    /\ swLast = NoAnswer
    /\ swNext = 1

\* The articles query before it has run.  status is "idle", "fetching",
\* "retrying" (waiting for retryDelay), "success" or "error"; failureCount
\* is the failure count of the library; requests counts the requests of
\* this run and retries those of them that were automatic retries; http is
\* the status the server answered last (0 for none) and message the
\* message of the error fetchArticles threw last; manual counts the fetches
\* handleRetry started since the load began or last succeeded.
IdleQuery ==
    [status |-> "idle", run |-> 0, failureCount |-> 0, requests |-> 0, retries |-> 0,
     http |-> 0, message |-> "", manual |-> 0]

\* NewsFeed.js 376: useState({})
NoAttempts == [k \in {} |-> 0]

\* The screen before anything is drawn.  total is <<n>> for a number that
\* is shown and <<>> when the value shown is undefined.
NoScreen ==
    [kind |-> "none", total |-> <<>>, missing |-> {}, columns |-> <<>>,
     bars |-> <<>>, counts |-> <<>>, source |-> ""]

\* What GET /api/news/stories/:id may answer for story `id`.
StoryPayloads(id) ==
    { Story("object", id, TRUE, TRUE, <<ArtLeft>>, <<ArtCenter>>, <<>>, {"right"}),
      Story("object", id, TRUE, TRUE, <<>>, <<ArtCenter>>, <<>>, {"left", "right"}),
      Story("object", id, TRUE, TRUE, <<>>, <<>>, <<>>, {"left", "center", "right"}),
      Story("object", id, TRUE, TRUE, <<ArtLeft>>, <<ArtCenter>>, <<ArtNoSource>>, {}),
      Story("object", id, TRUE, FALSE, <<>>, <<>>, <<>>, {}) }

(***************************************************************************)
(* newsfeed.js, handleCompareClick: the temporary story of one article.    *)
(***************************************************************************)
FourLabels == {L_left, L_center, L_right, L_unknown}

\* The object literal lists the computed key first, so the four literal
\* keys that follow overwrite it; line 327 then sets the computed key to 1.
biasDistributionOf(article) ==
    LET key == OrElse(article.articleBias, L_unknown)
        literal == [l \in {key} \cup FourLabels |-> IF l \in FourLabels THEN 0 ELSE 1]
    IN  [literal EXCEPT ![key] = 1]

\* tempStory with the placeholder prefix forgotten.
tempStory_NoPrefix(article) ==
    [kind |-> "object", _id |-> <<article._id>>,
     hasStoryGroup |-> FALSE, hasByBias |-> FALSE,
     left |-> <<>>, center |-> <<>>, right |-> <<>>,
     missingBiases |-> {},
     unknown |-> <<>>,
     articles |-> <<article>>,
     biasDistribution |-> biasDistributionOf(article)]

tempStory(article) ==
    [kind |-> "object", _id |-> <<"temp_">> \o <<article._id>>,
     hasStoryGroup |-> FALSE, hasByBias |-> FALSE,
     left |-> <<>>, center |-> <<>>, right |-> <<>>,
     missingBiases |-> {},
     unknown |-> <<>>,
     articles |-> <<article>>,
     biasDistribution |-> biasDistributionOf(article)]

(***************************************************************************)
(* newsfeed.js, the copy of CompareCoverage: what loadStoryData builds     *)
(* from the answer of POST /analyze.                                       *)
(***************************************************************************)
\* The values Date.now() may return when loadStoryData runs.
Clock == {1, 2}

\* id: `analysis-${Date.now()}`
AnalysisArticle(now) ==
    Article(<<"analysis-", now>>, L_none, TRUE, "AI Analysis", 85, "Automated analysis")

transformedData(now) ==
    Story("object", <<>>, TRUE, TRUE, <<>>, <<AnalysisArticle(now)>>, <<>>, {})

(***************************************************************************)
(* Requests in flight.  op is "story" (fetchStoryDetails), "compare" (the  *)
(* compare lookup) or "load" (CompareCoverage.loadStoryData).  live is     *)
(* FALSE once the component that issued a load has been unmounted: React   *)
(* drops the state updates of an unmounted component.                      *)
(***************************************************************************)
NullArticle == Article("", L_none, FALSE, "", 0, "")

Request(op, n, id, article) ==
    [op |-> op, n |-> n, id |-> id, article |-> article, live |-> TRUE]

Impls == {"CompareCoverage.js", "newsfeed.js"}

\* The view was mounted by a parent that passes storyId (and no story).
ById == mounted /\ propStoryId # <<>>

(***************************************************************************)
(* CompareCoverage: mounting, re-rendering with new props, unmounting.     *)
(***************************************************************************)
\* The effect of lines 22-26: storyId && !story.
EffectLoads(story, storyId) == storyId # <<>> /\ story.kind = "null"

Mount(story, storyId) ==
    /\ mounted' = TRUE
    /\ propStory' = story
    /\ propStoryId' = storyId
    /\ storyData' = story
    /\ loading' = (story.kind = "null" /\ storyId # <<>>)
    /\ error' = ""

\* A mounted instance keeps its state: useState ignores its argument after
\* the first render.  The effect runs again when storyId or story changed.
Rerender(story, storyId) ==
    /\ mounted' = TRUE
    /\ propStory' = story
    /\ propStoryId' = storyId
    /\ storyData' = storyData
    /\ loading' = IF EffectLoads(story, storyId) /\ <<story, storyId>> # <<propStory, propStoryId>>
                  THEN TRUE ELSE loading
    /\ error' = error

Unmount ==
    /\ mounted' = FALSE
    /\ propStory' = NullStory
    /\ propStoryId' = <<>>
    /\ storyData' = NullStory
    /\ loading' = FALSE
    /\ error' = ""

\* newsfeed.js 904-912: {selectedStory && <CompareCoverage story={selectedStory} .../>}
FeedRender(story) ==
    IF story.kind = "null" THEN Unmount
    ELSE IF mounted THEN Rerender(story, <<>>)
    ELSE Mount(story, <<>>)

(***************************************************************************)
(* CompareCoverage: what it renders.                                       *)
(***************************************************************************)
\* Every column reading its articles from articlesByBias.left.
Bucket_AlwaysLeft(data, bias) == data.left

Bucket(data, bias) ==
    CASE bias = "left" -> data.left
      [] bias = "center" -> data.center
      [] bias = "right" -> data.right

\* renderArticleCard reads article.source.name.
CardThrows(article) == ~article.hasSource

RenderThrows(data) ==
    \/ ~data.hasStoryGroup
    \/ \E b \in Biases : \E i \in DOMAIN Bucket(data, b) : CardThrows(Bucket(data, b)[i])

View ==
    IF ~mounted THEN "none"
    ELSE IF loading THEN "loading"
    ELSE IF error # "" \/ storyData.kind = "null" \/ ~storyData.hasByBias THEN "error"
    ELSE IF RenderThrows(storyData) THEN "threw"
    ELSE "columns"

\* getMissingBiasMessage: the labels it lists.
getMissingBiasMessage(data) == {b \in Biases : b \in data.missingBiases}

\* The total counting every key of articlesByBias.
totalArticles_AllKeys(data) ==
    Len(data.left) + Len(data.center) + Len(data.right) + Len(data.unknown)

totalArticles(data) == Len(data.left) + Len(data.center) + Len(data.right)

(***************************************************************************)
(* newsfeed.js NewsFeed: the handlers.                                     *)
(***************************************************************************)
handleStoryClick(id) ==
    /\ ~ById
    /\ nextReq <= MaxRequests
    /\ inflight' = inflight \cup {Request("story", nextReq, id, NullArticle)}
    /\ nextReq' = nextReq + 1
    /\ UNCHANGED <<selectedStory, appError, alertShown, impl, compareVars>>
    /\ UNCHANGED nonFlowVars

StoryFetchOk(r, data) ==
    /\ r \in inflight /\ r.op = "story"
    /\ data \in StoryPayloads(r.id)
    /\ selectedStory' = data
    /\ FeedRender(data)
    /\ inflight' = inflight \ {r}
    /\ UNCHANGED <<nextReq, appError, alertShown, impl>>
    /\ UNCHANGED nonFlowVars

StoryFetchFail(r) ==
    /\ r \in inflight /\ r.op = "story"
    /\ appError' = "Error loading story details"
    /\ inflight' = inflight \ {r}
    /\ UNCHANGED <<selectedStory, nextReq, alertShown, impl, compareVars>>
    /\ UNCHANGED nonFlowVars

handleCompareClick(article) ==
    /\ ~ById
    /\ nextReq <= MaxRequests
    /\ inflight' = inflight \cup {Request("compare", nextReq, <<>>, article)}
    /\ nextReq' = nextReq + 1
    /\ UNCHANGED <<selectedStory, appError, alertShown, impl, compareVars>>
    /\ UNCHANGED nonFlowVars

\* response.data.storyId is set: await handleStoryClick(storyId)
CompareFoundStory(r, id) ==
    /\ r \in inflight /\ r.op = "compare"
    /\ inflight' = (inflight \ {r}) \cup {[r EXCEPT !.op = "story", !.id = id]}
    /\ UNCHANGED <<selectedStory, nextReq, appError, alertShown, impl, compareVars>>
    /\ UNCHANGED nonFlowVars

\* response.data.storyId is not set: the temporary story
CompareFoundNothing(r) ==
    /\ r \in inflight /\ r.op = "compare"
    /\ selectedStory' = tempStory(r.article)
    /\ FeedRender(tempStory(r.article))
    /\ inflight' = inflight \ {r}
    /\ UNCHANGED <<nextReq, appError, alertShown, impl>>
    /\ UNCHANGED nonFlowVars

CompareFail(r) ==
    /\ r \in inflight /\ r.op = "compare"
    /\ alertShown' = "Unable to load comparison data"
    /\ inflight' = inflight \ {r}
    /\ UNCHANGED <<selectedStory, nextReq, appError, impl, compareVars>>
    /\ UNCHANGED nonFlowVars

\* onClose={() => setSelectedStory(null)}; a parent that mounted the view
\* by storyId takes it off the screen.
onClose ==
    /\ mounted
    /\ selectedStory' = NullStory
    /\ Unmount
    /\ inflight' = {IF r.op = "load" THEN [r EXCEPT !.live = FALSE] ELSE r : r \in inflight}
    /\ UNCHANGED <<nextReq, appError, alertShown, impl>>
    /\ UNCHANGED nonFlowVars

(***************************************************************************)
(* CompareCoverage mounted with a storyId: loadStoryData.                  *)
(***************************************************************************)
OpenById(id, copy) ==
    /\ ~mounted
    /\ selectedStory.kind = "null"
    /\ \A r \in inflight : r.op = "load"
    /\ nextReq <= MaxRequests
    /\ impl' = copy
    /\ Mount(NullStory, id)
    /\ inflight' = inflight \cup {Request("load", nextReq, id, NullArticle)}
    /\ nextReq' = nextReq + 1
    /\ UNCHANGED <<selectedStory, appError, alertShown>>
    /\ UNCHANGED nonFlowVars

ChangeStoryId(id) ==
    /\ ById
    /\ id # propStoryId
    /\ nextReq <= MaxRequests
    /\ Rerender(propStory, id)
    /\ inflight' = inflight \cup {Request("load", nextReq, id, NullArticle)}
    /\ nextReq' = nextReq + 1
    /\ UNCHANGED <<selectedStory, appError, alertShown, impl>>
    /\ UNCHANGED nonFlowVars

\* What setStoryData receives when the request succeeds.
LoadedData(data, now) == IF impl = "newsfeed.js" THEN transformedData(now) ELSE data

LoadOk(r, data, now) ==
    /\ r \in inflight /\ r.op = "load"
    /\ data \in StoryPayloads(r.id)
    /\ inflight' = inflight \ {r}
    /\ IF r.live
       THEN /\ storyData' = LoadedData(data, now)
            /\ loading' = FALSE
            /\ UNCHANGED <<mounted, propStory, propStoryId, error>>
       ELSE UNCHANGED compareVars
    /\ UNCHANGED <<selectedStory, nextReq, appError, alertShown, impl>>
    /\ UNCHANGED nonFlowVars

\* LoadFail without the finally block that clears loading.
LoadFail_NoFinally(r) ==
    /\ r \in inflight /\ r.op = "load"
    /\ inflight' = inflight \ {r}
    /\ IF r.live
       THEN /\ error' = "Failed to load coverage comparison"
            /\ UNCHANGED <<mounted, propStory, propStoryId, storyData, loading>>
       ELSE UNCHANGED compareVars
    /\ UNCHANGED <<selectedStory, nextReq, appError, alertShown, impl>>
    /\ UNCHANGED nonFlowVars

LoadFail(r) ==
    /\ r \in inflight /\ r.op = "load"
    /\ inflight' = inflight \ {r}
    /\ IF r.live
       THEN /\ error' = "Failed to load coverage comparison"
            /\ loading' = FALSE
            /\ UNCHANGED <<mounted, propStory, propStoryId, storyData>>
       ELSE UNCHANGED compareVars
    /\ UNCHANGED <<selectedStory, nextReq, appError, alertShown, impl>>
    /\ UNCHANGED nonFlowVars

\* The search input before anything is typed.
InitSearchBox(component) ==
    /\ searchBox = [component |-> component, value |-> ""]
    /\ searchClock = 0
    /\ searchTimers = {}
    /\ searchTyped = <<>>
    /\ searchCalls = <<>>

\* part_004 58-69
INITIAL_STATE ==
    [currentTheme |-> "auto", actualTheme |-> "light", systemPreference |-> "light",
     isTransitioning |-> FALSE, customizations |-> {},
     accessibility |-> [highContrast |-> FALSE, reducedMotion |-> FALSE,
                        largerText |-> FALSE]]

\* localStorage without the items of the theme; an item is <<>> when it is
\* absent and <<value>> when it is stored.
NoThemeStorage == [theme |-> <<>>, customizations |-> <<>>, accessibility |-> <<>>]

\* The provider before it is mounted.
InitNoTheme ==
    /\ themeState = INITIAL_STATE
    /\ themeStorage = NoThemeStorage
    /\ themeDom = [mounted |-> FALSE, class |-> "", dirty |-> FALSE, applying |-> 0]

\* ThemeContext.js before the provider is mounted, for a user without a
\* stored theme.
InitNoCtx ==
    /\ ctxMounted = FALSE
    /\ ctxTheme = ""
    /\ ctxStorage = ""
    /\ ctxSystem = "light"
    /\ ctxDom = <<>>
    /\ ctxToggled = FALSE

\* The sidebar before it is opened; recentStorage is <<>> when the item is
\* absent and <<list>> when it is stored.
InitNoSidebar ==
    /\ searchQuery = <<>>
    /\ sidebarMounted = FALSE
    /\ recentSearches = <<>>
    /\ recentStorage = <<>>

\* The other components before they are used.
InitWidgets ==
    InitSearchBox("FilterSidebar") /\ InitNoTheme /\ InitNoCtx /\ InitNoSidebar

InitApp ==
    /\ selectedStory = NullStory
    /\ inflight = {}
    /\ nextReq = 1
    /\ appError = ""
    /\ alertShown = ""
    /\ impl = "CompareCoverage.js"
    /\ mounted = FALSE
    /\ propStory = NullStory
    /\ propStoryId = <<>>
    /\ storyData = NullStory
    /\ loading = FALSE
    /\ error = ""
    /\ nfArticles = <<>>
    /\ feedArticles = <<>>
    /\ stories = <<>>
    /\ screen = NoScreen
    /\ articlesQuery = IdleQuery
    /\ retryAttempts = NoAttempts
    /\ retryCalls = <<>>

Init == InitApp /\ InitNoWorker /\ InitWidgets

Next ==
    \/ \E id \in StoryIds : handleStoryClick(id)
    \/ \E r \in inflight : \E id \in StoryIds : \E data \in StoryPayloads(id) : StoryFetchOk(r, data)
    \/ \E r \in inflight : StoryFetchFail(r)
    \/ \E a \in FeedArticles : handleCompareClick(a)
    \/ \E r \in inflight : \E id \in StoryIds : CompareFoundStory(r, id)
    \/ \E r \in inflight : CompareFoundNothing(r)
    \/ \E r \in inflight : CompareFail(r)
    \/ onClose
    \/ \E id \in StoryIds : \E copy \in Impls : OpenById(id, copy)
    \/ \E id \in StoryIds : ChangeStoryId(id)
    \/ \E r \in inflight : \E id \in StoryIds : \E data \in StoryPayloads(id) :
          \E now \in Clock : LoadOk(r, data, now)
    \/ \E r \in inflight : LoadFail(r)

Spec == Init /\ [][Next]_vars

(***************************************************************************)
(* String.prototype.toLowerCase, character by character.                   *)
(***************************************************************************)
UpperCase == <<"A", "B", "C", "D", "E", "F", "G", "H", "I", "J", "K", "L", "M",
               "N", "O", "P", "Q", "R", "S", "T", "U", "V", "W", "X", "Y", "Z">>

LowerCase == <<"a", "b", "c", "d", "e", "f", "g", "h", "i", "j", "k", "l", "m",
               "n", "o", "p", "q", "r", "s", "t", "u", "v", "w", "x", "y", "z">>

toLowerCaseChar(c) ==
    IF \E i \in DOMAIN UpperCase : UpperCase[i] = c
    THEN LowerCase[CHOOSE i \in DOMAIN UpperCase : UpperCase[i] = c]
    ELSE c

toLowerCase(s) == [i \in DOMAIN s |-> toLowerCaseChar(s[i])]

(***************************************************************************)
(* The three getBiasLabel of the repository.                               *)
(***************************************************************************)
\* CompareCoverage.js 86-93: switch (bias)
CompareCoverage_getBiasLabel(bias) ==
    CASE bias = L_left -> "Left Leaning"
      [] bias = L_center -> "Center"
      [] bias = L_right -> "Right Leaning"
      [] OTHER -> "Unknown"

\* CompareCoverage.js 265-267: the keys renderBiasColumn is called with
ColumnKeys == {L_left, L_center, L_right}

\* newsfeed.js 380-388: labels[bias] || labels.unknown
newsfeed_getBiasLabel(bias) ==
    CASE bias = L_left -> "Left-Leaning"
      [] bias = L_center -> "Center"
      [] bias = L_right -> "Right-Leaning"
      [] bias = L_unknown -> "Unknown"
      [] OTHER -> "Unknown"

\* NewsFeed.js 261-268, EnhancedBiasIndicator: switch (bias?.toLowerCase())
EnhancedBiasIndicator_getBiasLabel(bias) ==
    LET b == IF Truthy(bias) THEN toLowerCase(bias) ELSE L_none
    IN  CASE b = L_left -> "Left"
          [] b = L_right -> "Right"
          [] b = L_center -> "Center"
          [] OTHER -> "Unknown"

\* newsfeed.js 402: a bias badge is shown for the article
hasReliableBiasData(article) ==
    article.biasConfidence > 60 /\ article.articleBias # L_unknown

\* newsfeed.js 495-498: the label the card's "Why ...?" line shows, "" when
\* the card has no such line
CardBiasLabel(article) ==
    IF hasReliableBiasData(article) /\ article.biasReasoning # ""
    THEN newsfeed_getBiasLabel(article.articleBias)
    ELSE ""

(***************************************************************************)
(* NewsFeed.js, fetchArticles: every article of a page is sent to the bias *)
(* analysis service, and its answer is merged into the article.            *)
(***************************************************************************)
MaxArticles == 2

RawLabels == {L_left, L_center, L_LEFT, L_Right, L_banana, L_none}

\* The answer of POST /analyze: ok is FALSE when the request failed;
\* confidence 0 stands for an answer without confidence.
Analyses ==
    [ok : {TRUE}, bias_type : RawLabels, confidence : {0, 70}]
    \cup {[ok |-> FALSE, bias_type |-> L_none, confidence |-> 0]}

withBias(article, analysis) ==
    IF analysis.ok
    THEN [article EXCEPT
            !.articleBias = OrElse(analysis.bias_type, L_center),
            !.biasConfidence = IF analysis.confidence # 0 THEN analysis.confidence ELSE 85,
            !.biasReasoning = "AI-powered bias analysis"]
    ELSE [article EXCEPT
            !.articleBias = L_center,
            !.biasConfidence = 50,
            !.biasReasoning = "Bias analysis unavailable"]

ServedArticles == {ArtCenter, ArtBanana}

NewsFeed_fetchArticles(article, analysis) ==
    /\ Len(nfArticles) < MaxArticles
    /\ nfArticles' = Append(nfArticles, withBias(article, analysis))
    /\ UNCHANGED nonAnalysisVars

\* The query is reset (filters changed): the list starts over.
NewsFeed_reset ==
    /\ nfArticles # <<>>
    /\ nfArticles' = <<>>
    /\ UNCHANGED nonAnalysisVars

NextAnalysis ==
    \/ \E article \in ServedArticles : \E analysis \in Analyses :
          NewsFeed_fetchArticles(article, analysis)
    \/ NewsFeed_reset

SpecAnalysis == Init /\ [][NextAnalysis]_vars

(***************************************************************************)
(* newsfeed.js: the articles and the story groups of the feed, as the      *)
(* server sent them, and the bias bars of a story group.                   *)
(***************************************************************************)
MaxFeed == 2

\* Articles GET /api/news may serve: labels in any letter case, unexpected
\* and absent labels, with and without a source.
RawArticles ==
    { ArtCenter, ArtLeft, ArtNoSource, ArtNoBias, ArtBanana,
      Article("a6", L_LEFT, TRUE, "Daily", 90, "word choice"),
      Article("a7", L_Right, TRUE, "Post", 90, "framing"),
      Article("a8", L_unknown, TRUE, "Wire", 90, "unclear") }

\* A story group: hasTotal says whether it carries totalArticles.
StoryGroup(dist, hasTotal, total) ==
    [biasDistribution |-> dist, hasTotal |-> hasTotal, totalArticles |-> total]

Distribution(l, c, r, u) ==
    (L_left :> l) @@ (L_center :> c) @@ (L_right :> r) @@ (L_unknown :> u)

StoryGroups ==
    { StoryGroup(Distribution(2, 1, 0, 0), TRUE, 3),
      StoryGroup(Distribution(1, 0, 1, 1), TRUE, 3),
      StoryGroup(Distribution(0, 0, 0, 0), TRUE, 0),
      StoryGroup(Distribution(0, 1, 0, 0), TRUE, 0),
      StoryGroup(Distribution(1, 0, 0, 0), FALSE, 0) }

\* A JavaScript number that is a ratio num/den, or NaN, or Infinity.
Number(num, den) == [kind |-> "number", num |-> num, den |-> den]

NaN == [kind |-> "NaN", num |-> 0, den |-> 1]

Infinity == [kind |-> "Infinity", num |-> 0, den |-> 1]

\* newsfeed.js 635: (count / storyGroup.totalArticles) * 100, count # 0
percentage(count, storyGroup) ==
    IF ~storyGroup.hasTotal THEN NaN
    ELSE IF storyGroup.totalArticles = 0 THEN Infinity
    ELSE Number(count * 100, storyGroup.totalArticles)

\* newsfeed.js 633-654: one bar for each entry whose count is not 0
BiasBars(storyGroup) ==
    LET dist == storyGroup.biasDistribution
        shown == {bias \in DOMAIN dist : dist[bias] # 0}
    IN  [bias \in shown |-> percentage(dist[bias], storyGroup)]

newsfeed_fetchArticles(article) ==
    /\ Len(feedArticles) < MaxFeed
    /\ feedArticles' = Append(feedArticles, article)
    /\ UNCHANGED <<nonFeedVars, stories>>

newsfeed_fetchStories(storyGroup) ==
    /\ Len(stories) < MaxFeed
    /\ stories' = Append(stories, storyGroup)
    /\ UNCHANGED <<nonFeedVars, feedArticles>>

\* handleFilterChange invalidates both queries: the lists start over.
newsfeed_invalidate ==
    /\ feedArticles # <<>> \/ stories # <<>>
    /\ feedArticles' = <<>>
    /\ stories' = <<>>
    /\ UNCHANGED nonFeedVars

NextFeed ==
    \/ \E article \in RawArticles : newsfeed_fetchArticles(article)
    \/ \E storyGroup \in StoryGroups : newsfeed_fetchStories(storyGroup)
    \/ newsfeed_invalidate

SpecFeed == Init /\ [][NextFeed]_vars

(***************************************************************************)
(* What the components draw.  CompareCoverage draws the story it holds,    *)
(* the feed draws a story group card and an article card.                  *)
(***************************************************************************)
MaxBucket == 2

\* The label a column key stands for.
KeyLabel(bias) ==
    CASE bias = "left" -> L_left
      [] bias = "center" -> L_center
      [] bias = "right" -> L_right

\* CompareCoverage.js 114-187
CompareCoverage_renderArticleCard(article, bias) ==
    [key |-> article._id, source |-> article.sourceName,
     badge |-> CompareCoverage_getBiasLabel(KeyLabel(bias))]

\* renderBiasColumn drawing the articles last to first.
renderBiasColumn_Reversed(bias, articles) ==
    [i \in DOMAIN articles |->
        CompareCoverage_renderArticleCard(articles[Len(articles) + 1 - i], bias)]

\* CompareCoverage.js 189-213: articles.map(article => renderArticleCard(article, bias))
renderBiasColumn(bias, articles) ==
    [i \in DOMAIN articles |-> CompareCoverage_renderArticleCard(articles[i], bias)]

CompareCoverage_render ==
    /\ mounted
    /\ screen' =
          IF View = "columns"
          THEN [NoScreen EXCEPT
                  !.kind = "columns",
                  !.total = <<totalArticles(storyData)>>,
                  !.missing = getMissingBiasMessage(storyData),
                  !.columns = [b \in Biases |-> renderBiasColumn(b, Bucket(storyData, b))]]
          ELSE [NoScreen EXCEPT !.kind = View]
    /\ UNCHANGED nonRenderVars

\* newsfeed.js 633-654: the count each bar's label shows
BarCounts(storyGroup) ==
    LET dist == storyGroup.biasDistribution
    IN  [bias \in {b \in DOMAIN dist : dist[b] # 0} |-> dist[bias]]

\* newsfeed.js 600-657
renderStoryGroup(i) ==
    /\ i \in DOMAIN stories
    /\ screen' =
          [NoScreen EXCEPT
             !.kind = "storyGroup",
             !.total = IF stories[i].hasTotal THEN <<stories[i].totalArticles>> ELSE <<>>,
             !.bars = BiasBars(stories[i]),
             !.counts = BarCounts(stories[i])]
    /\ UNCHANGED nonRenderVars

\* newsfeed.js 459: article.source?.name || 'Unknown Source'
newsfeed_sourceName(article) ==
    IF article.hasSource /\ article.sourceName # "" THEN article.sourceName
    ELSE "Unknown Source"

\* newsfeed.js 401-598
newsfeed_renderArticleCard(i) ==
    /\ i \in DOMAIN feedArticles
    /\ screen' = [NoScreen EXCEPT !.kind = "article",
                                  !.source = newsfeed_sourceName(feedArticles[i])]
    /\ UNCHANGED nonRenderVars

\* The stories a view may be handed: every filling of the three buckets
\* with up to MaxBucket articles, with and without a further bucket, the
\* flags naming the empty buckets; the payloads of StoryPayloads; and a
\* story of three empty buckets that carries no missingBiases (line 217
\* tests missingBiases before it reads a flag).
RenderArticles == {ArtCenter, ArtLeft}

Buckets == UNION {[1..n -> RenderArticles] : n \in 0..MaxBucket}

EmptyBuckets(l, c, r) ==
    {b \in Biases : (b = "left" /\ l = <<>>) \/ (b = "center" /\ c = <<>>)
                        \/ (b = "right" /\ r = <<>>)}

Payloads ==
    { [Story("object", <<"s1">>, TRUE, TRUE, l, c, r, EmptyBuckets(l, c, r))
          EXCEPT !.unknown = u] :
        l \in Buckets, c \in Buckets, r \in Buckets, u \in {<<>>, <<ArtNoBias>>} }
    \cup StoryPayloads(<<"s1">>)
    \cup {Story("object", <<"s1">>, TRUE, TRUE, <<>>, <<>>, <<>>, {})}

\* The feed has answered a story click with one of Payloads and shows one
\* article and one story group.
InitRender ==
    /\ selectedStory \in Payloads
    /\ inflight = {}
    /\ nextReq = 2
    /\ appError = ""
    /\ alertShown = ""
    /\ impl = "CompareCoverage.js"
    /\ mounted = TRUE
    /\ propStory = selectedStory
    /\ propStoryId = <<>>
    /\ storyData = selectedStory
    /\ loading = FALSE
    /\ error = ""
    /\ nfArticles = <<>>
    /\ \E a \in {ArtCenter, ArtNoSource} : feedArticles = <<a>>
    /\ \E g \in StoryGroups : stories = <<g>>
    /\ screen = NoScreen
    /\ articlesQuery = IdleQuery
    /\ retryAttempts = NoAttempts
    /\ retryCalls = <<>>
    /\ InitNoWorker
    /\ InitWidgets

NextRender ==
    \/ CompareCoverage_render
    \/ \E i \in DOMAIN stories : renderStoryGroup(i)
    \/ \E i \in DOMAIN feedArticles : newsfeed_renderArticleCard(i)

SpecRender == InitRender /\ [][NextRender]_vars

(***************************************************************************)
(* Properties checked under SpecAnalysis and SpecFeed.                     *)
(***************************************************************************)

\* C3: after the bias analysis every article's label is one of left,
\* center, right, unknown.
C3_LabelsNormalized ==
    \A i \in DOMAIN nfArticles : nfArticles[i].articleBias \in FourLabels

\* The label a raw label stands for once it is lower-cased and every label
\* outside left, center, right is folded to unknown.
Folded(raw) ==
    LET b == toLowerCase(raw)
    IN  IF b \in {L_left, L_center, L_right} THEN b ELSE L_unknown

\* C4: every place that labels an article by its bias treats labels that
\* differ only in letter case alike, and any other label as unknown.
C4_CaseInsensitive ==
    /\ \A i \in DOMAIN feedArticles :
          LET a == feedArticles[i]
          IN  CardBiasLabel(a) # "" =>
                 CardBiasLabel(a) = newsfeed_getBiasLabel(Folded(a.articleBias))
    /\ \A i \in DOMAIN nfArticles :
          LET a == nfArticles[i]
          IN  EnhancedBiasIndicator_getBiasLabel(a.articleBias)
                 = EnhancedBiasIndicator_getBiasLabel(Folded(a.articleBias))
    /\ \A key \in ColumnKeys :
          CompareCoverage_getBiasLabel(key) = CompareCoverage_getBiasLabel(Folded(key))

\* C6: every percentage computed for a bias bar is a number between 0 and
\* 100, and is 0 when totalArticles is 0.
C6_PercentageInRange ==
    \A i \in DOMAIN stories :
        LET bars == BiasBars(stories[i])
        IN  \A bias \in DOMAIN bars :
               /\ bars[bias].kind = "number"
               /\ 0 <= bars[bias].num
               /\ bars[bias].num <= 100 * bars[bias].den
               /\ (stories[i].hasTotal /\ stories[i].totalArticles = 0) => bars[bias].num = 0

(***************************************************************************)
(* Properties checked under Spec.                                          *)
(***************************************************************************)

\* The breakdown the view shows on screen: defined while it draws columns.
ShowsColumns == View = "columns"

\* A later user request than r has been issued.
Superseded(r) == r.n < nextReq - 1

\* C1: when compare coverage is requested for an ungrouped article whose
\* bias is center, the view shows the synthesized story with center = [that
\* article], left = [], right = [] and left and right reported missing.
C1_FallbackIsAggregate ==
    \A a \in FeedArticles :
        (a.articleBias = L_center /\ mounted /\ ~loading /\ storyData = tempStory(a))
        => /\ ShowsColumns
           /\ storyData.center = <<a>>
           /\ storyData.left = <<>>
           /\ storyData.right = <<>>
           /\ getMissingBiasMessage(storyData) = {"left", "right"}

\* C2: in every breakdown the view shows, a label is reported as a missing
\* perspective if and only if its bucket holds no article.
C2_MissingIffEmpty ==
    ShowsColumns =>
        \A b \in Biases :
            (b \in getMissingBiasMessage(storyData)) <=> (Len(Bucket(storyData, b)) = 0)

\* C5: producing the breakdown never raises, whatever the story payload.
C5_Totality == View # "threw"

C8_SupersededNeverApplied ==
    [][\A r \in inflight : \A data \in StoryPayloads(r.id) :
          ((StoryFetchOk(r, data) \/ \E now \in Clock : LoadOk(r, data, now)) /\ Superseded(r))
          => (selectedStory' = selectedStory /\ storyData' = storyData)]_vars

\* C9: the view mounted by the feed shows the breakdown of the story that
\* was supplied to it last.
C9_ShowsLatestStory ==
    (mounted /\ ~ById) => storyData = selectedStory

\* C22: when a story fetch of the comparison view succeeds with a payload
\* that can be drawn, the view shows the comparison columns from then on,
\* even if an earlier fetch of the same view had failed.
C22_SuccessShowsColumns ==
    [][\A r \in inflight : \A data \in StoryPayloads(r.id) : \A now \in Clock :
          (/\ LoadOk(r, data, now)
           /\ r.live
           /\ storyData'.hasByBias
           /\ ~RenderThrows(storyData'))
          => View' = "columns"]_vars

\* C10: when the compare lookup of an article returns no story, the selected
\* story becomes a story whose articles are exactly that article and whose
\* identifier is that article's identifier behind the prefix temp_.
C10_FallbackSynthesized ==
    [][\A r \in inflight :
          CompareFoundNothing(r) =>
              /\ selectedStory'.kind = "object"
              /\ selectedStory'.articles = <<r.article>>
              /\ Len(selectedStory'._id) = 2
              /\ selectedStory'._id[1] = "temp_"
              /\ selectedStory'._id[2] = r.article._id]_vars

C10_Witness ==
    \E a \in FeedArticles :
        /\ selectedStory.articles = <<a>>
        /\ selectedStory._id = <<"temp_", a._id>>
        /\ mounted

\* C11: the bias distribution of the synthesized story holds exactly the
\* four labels left, center, right and unknown, with the label of its one
\* article (unknown when the article has none) at 1 and the three others
\* at 0.
C11_FallbackDistribution ==
    \A a \in FeedArticles :
        selectedStory = tempStory(a) =>
            LET d == selectedStory.biasDistribution
            IN  /\ DOMAIN d = FourLabels
                /\ \E l \in FourLabels :
                      /\ d[l] = 1
                      /\ \A m \in FourLabels \ {l} : d[m] = 0
                      /\ a.articleBias \in FourLabels => l = a.articleBias

(***************************************************************************)
(* Properties checked under SpecRender.                                    *)
(***************************************************************************)

\* The number of article cards the three columns of the screen hold.
CardsDrawn ==
    Len(screen.columns["left"]) + Len(screen.columns["center"])
        + Len(screen.columns["right"])

NameOrUnknown(article) ==
    IF article.hasSource /\ article.sourceName # "" THEN article.sourceName
    ELSE "Unknown Source"

\* C13: an article without a source name is drawn, wherever it is drawn,
\* with the source name "Unknown Source", and drawing it raises nothing.
C13_UnknownSourceFallback ==
    /\ screen.kind # "threw"
    /\ screen.kind = "columns" =>
          \A b \in Biases : \A i \in DOMAIN Bucket(storyData, b) :
              screen.columns[b][i].source = NameOrUnknown(Bucket(storyData, b)[i])
    /\ screen.kind = "article" => screen.source = NameOrUnknown(feedArticles[1])

\* The identifiers of the articles the payload files under any key.
InputIds ==
    {a._id : a \in {(storyData.left \o storyData.center \o storyData.right
                        \o storyData.unknown)[i] :
                     i \in 1..(Len(storyData.left) + Len(storyData.center)
                                 + Len(storyData.right) + Len(storyData.unknown))}}

\* How often identifier id occurs among the cards (or articles) of seq.
Occurrences(seq, id) == Cardinality({i \in DOMAIN seq : seq[i] = id})

Keys(cards) == [i \in DOMAIN cards |-> cards[i].key]

Ids(articles) == [i \in DOMAIN articles |-> articles[i]._id]

C15_OrderPreserved ==
    screen.kind = "columns" =>
        \A b \in Biases : Keys(screen.columns[b]) = Ids(storyData[b])

C15_Witness ==
    /\ screen.kind = "columns"
    /\ Keys(screen.columns["left"]) = <<"a2", "a1">>
    /\ Keys(screen.columns["right"]) = <<"a1", "a2">>

\* C16: a story without articles is drawn, without raising, as three empty
\* columns with all three labels reported missing and totalArticles 0.
C16_EmptyStory ==
    (/\ screen.kind \in {"columns", "error", "threw", "loading"}
     /\ storyData.left = <<>> /\ storyData.center = <<>> /\ storyData.right = <<>>
     /\ storyData.unknown = <<>>)
    => /\ screen.kind = "columns"
       /\ \A b \in Biases : screen.columns[b] = <<>>
       /\ screen.missing = Biases
       /\ screen.total = <<0>>

(***************************************************************************)
(* Properties checked under Spec (continued).                              *)
(***************************************************************************)

\* C17: producing the breakdown of a story is pure: it sends no request,
\* and the breakdown it stores is the same whenever it runs on the same
\* answer.
C17_Pure ==
    [][/\ \A id \in StoryIds : \A copy \in Impls :
             OpenById(id, copy) => inflight' = inflight
       /\ \A r \in inflight : \A data \in StoryPayloads(r.id) : \A now \in Clock :
             (LoadOk(r, data, now) /\ r.live) =>
                 \A other \in Clock : storyData' = LoadedData(data, other)]_vars

(***************************************************************************)
(* The service workers: src/service-worker.js and the older worker of      *)
(* src/unnamed/part_005.  A request is a GET; path says what its pathname  *)
(* looks like ("static": under /static/ or ending in .js, .css, .woff,     *)
(* .woff2, or /manifest.json, /favicon.ico; "api": under /api/ or on a     *)
(* backend host; "image": ending in an image extension), apiPattern says   *)
(* whether the pathname matches one of API_CACHE_PATTERNS of part_005.     *)
(***************************************************************************)
MaxEvents == 3

Req(url, path, destination, mode, apiPattern) ==
    [url |-> url, path |-> path, destination |-> destination, mode |-> mode,
     apiPattern |-> apiPattern]

R_css == Req("/static/css/main.css", "static", "style", "no-cors", FALSE)
R_stats == Req("/api/news/stats", "api", "", "cors", TRUE)
R_news == Req("/api/news?page=1", "api", "", "cors", FALSE)
R_photo == Req("/media/photo.png", "image", "image", "no-cors", FALSE)
R_page == Req("/story/1", "page", "document", "navigate", FALSE)
R_font == Req("https://fonts.googleapis.com/css2", "other", "style", "no-cors", FALSE)

Requests == {R_css, R_stats, R_news, R_photo, R_page, R_font}

OFFLINE_URL == "/offline.html"

\* service-worker.js 256-281
isStaticAsset(request) == request.path = "static"

isAPIRequest(request) == request.path = "api"

isImageRequest(request) == request.destination = "image" \/ request.path = "image"

isNavigationRequest(request) == request.mode = "navigate"

\* The branch of the fetch listener that answers the request:
\* service-worker.js 123-133, part_005 71-137.
Route(request) ==
    IF worker = "service-worker.js"
    THEN IF isStaticAsset(request) THEN "static"
         ELSE IF isAPIRequest(request) THEN "api"
         ELSE IF isImageRequest(request) THEN "image"
         ELSE IF isNavigationRequest(request) THEN "navigate"
         ELSE "dynamic"
    ELSE IF request.mode = "navigate" THEN "navigate"
         ELSE IF request.apiPattern THEN "api"
         ELSE IF request.destination \in {"image", "style", "script", "font"} THEN "static"
         ELSE "default"

\* caches.match(url, { cacheName })
Has(cache, url) == \E i \in DOMAIN swCaches[cache] : swCaches[cache][i] = url

\* caches.match(url)
Matches(url) == \E cache \in CacheNames : Has(cache, url)

\* The lookup of static assets going to the dynamic cache.
cachedResponse_WrongCache(route, request) ==
    CASE worker = "service-worker.js" /\ route = "static" -> Has(DYNAMIC_CACHE, request.url)
      [] worker = "service-worker.js" /\ route = "image" -> Has(IMAGE_CACHE, request.url)
      [] worker = "part_005" /\ route = "static" -> FALSE
      [] OTHER -> FALSE

\* Whether the handler of a cache-first route finds the request in its
\* cache before it goes to the network: handleStaticAsset 287-291,
\* handleImageRequest 379-383, part_005 114-118.
cachedResponse(route, request) ==
    CASE worker = "service-worker.js" /\ route = "static" -> Has(STATIC_CACHE, request.url)
      [] worker = "service-worker.js" /\ route = "image" -> Has(IMAGE_CACHE, request.url)
      [] worker = "part_005" /\ route = "static" -> Matches(request.url)
      [] OTHER -> FALSE

Answer(n, request, route, from, status) ==
    [n |-> n, url |-> request.url, route |-> route, from |-> from, status |-> status]

\* The fetch event of a GET request.
FetchEvent(request) ==
    /\ swNext <= MaxEvents
    /\ LET route == Route(request)
       IN  IF cachedResponse(route, request)
           THEN /\ swLast' = Answer(swNext, request, route, "cache", 200)
                /\ swHandlers' = swHandlers
           ELSE /\ swHandlers' = swHandlers \cup
                        {[n |-> swNext, request |-> request, route |-> route, pc |-> "fetch"]}
                /\ swLast' = swLast
    /\ swNext' = swNext + 1
    /\ UNCHANGED <<worker, swCaches, swPuts>>
    /\ UNCHANGED nonSwVars

\* The cache a handler puts a successful network response into, "" for none.
StoreCache(route) ==
    IF worker = "service-worker.js"
    THEN CASE route = "static" -> STATIC_CACHE
           [] route = "api" -> API_CACHE
           [] route = "image" -> IMAGE_CACHE
           [] route = "navigate" -> DYNAMIC_CACHE
           [] route = "dynamic" -> DYNAMIC_CACHE
    ELSE IF route \in {"api", "static"} THEN TWOSIDES_CACHE ELSE ""

\* The handlers that await cleanupCache before they return the response.
Cleans(route) == worker = "service-worker.js" /\ route \in {"api", "image", "dynamic"}

\* CACHE_CONFIG[...].maxEntries, service-worker.js 13-34
maxEntries(cache) ==
    CASE cache = STATIC_CACHE -> 100
      [] cache = DYNAMIC_CACHE -> 50
      [] cache = API_CACHE -> 100
      [] cache = IMAGE_CACHE -> 100

\* service-worker.js 468-481: requests.slice(0, requests.length - maxEntries) is deleted
cleanupCache(keys, max) ==
    IF Len(keys) > max THEN SubSeq(keys, Len(keys) - max + 1, Len(keys)) ELSE keys

\* What the handler of route answers when the network request failed
\* (rejected, or aborted by the 5 s timer of handleAPIRequest).
Fallback(h) ==
    LET request == h.request
        cached == Answer(h.n, request, h.route, "cache", 200)
        synthesized == Answer(h.n, request, h.route, "synthesized", 503)
        nothing == Answer(h.n, request, h.route, "undefined", 0)
        rejected == Answer(h.n, request, h.route, "rejected", 0)
    IN  IF worker = "service-worker.js"
        THEN CASE h.route = "static" -> synthesized
               [] h.route = "api" ->
                    IF Has(API_CACHE, request.url) THEN cached ELSE synthesized
               [] h.route = "image" ->
                    IF Matches("/placeholder-image.png")
                    THEN [cached EXCEPT !.url = "/placeholder-image.png"]
                    ELSE synthesized
               [] h.route = "navigate" ->
                    IF Has(DYNAMIC_CACHE, request.url) THEN cached
                    ELSE IF Has(STATIC_CACHE, "/") THEN [cached EXCEPT !.url = "/"]
                    ELSE synthesized
               [] h.route = "dynamic" ->
                    IF Has(DYNAMIC_CACHE, request.url) THEN cached ELSE synthesized
        ELSE CASE h.route = "navigate" ->
                    IF Matches(OFFLINE_URL) THEN [cached EXCEPT !.url = OFFLINE_URL]
                    ELSE nothing
               [] h.route = "static" -> rejected
               [] OTHER -> IF Matches(request.url) THEN cached ELSE nothing

\* The fallback of every route being tried although the network answered.
NetworkDone_CacheWins(h, outcome) ==
    /\ h \in swHandlers /\ h.pc = "fetch"
    /\ outcome \in {"ok", "error", "failed"}
    /\ swLast' = Fallback(h)
    /\ swHandlers' = swHandlers \ {h}
    /\ UNCHANGED <<worker, swCaches, swPuts, swNext>>
    /\ UNCHANGED nonSwVars

\* The network request of handler h is over: "ok" is a response with
\* status 200, "error" one with status 500, "failed" no response.
NetworkDone(h, outcome) ==
    /\ h \in swHandlers /\ h.pc = "fetch"
    /\ outcome \in {"ok", "error", "failed"}
    /\ CASE outcome = "ok" ->
              /\ swPuts' = IF StoreCache(h.route) # ""
                           THEN swPuts \cup {[cache |-> StoreCache(h.route),
                                              url |-> h.request.url]}
                           ELSE swPuts
              /\ IF Cleans(h.route)
                 THEN /\ swHandlers' = (swHandlers \ {h}) \cup {[h EXCEPT !.pc = "cleanup"]}
                      /\ swLast' = swLast
                 ELSE /\ swHandlers' = swHandlers \ {h}
                      /\ swLast' = Answer(h.n, h.request, h.route, "network", 200)
         [] outcome = "error" ->
              /\ swLast' = Answer(h.n, h.request, h.route, "network", 500)
              /\ swHandlers' = swHandlers \ {h}
              /\ swPuts' = swPuts
         [] outcome = "failed" ->
              /\ swLast' = Fallback(h)
              /\ swHandlers' = swHandlers \ {h}
              /\ swPuts' = swPuts
    /\ UNCHANGED <<worker, swCaches, swNext>>
    /\ UNCHANGED nonSwVars

\* await cleanupCache(...); return response
Cleanup(h) ==
    /\ h \in swHandlers /\ h.pc = "cleanup"
    /\ swCaches' = [swCaches EXCEPT ![StoreCache(h.route)] =
                        cleanupCache(@, maxEntries(StoreCache(h.route)))]
    /\ swLast' = Answer(h.n, h.request, h.route, "network", 200)
    /\ swHandlers' = swHandlers \ {h}
    /\ UNCHANGED <<worker, swPuts, swNext>>
    /\ UNCHANGED nonSwVars

\* A cache.put completes: the entry of the same request is replaced.
PutDone(p) ==
    /\ p \in swPuts
    /\ swCaches' = [swCaches EXCEPT ![p.cache] =
                        Append(SelectSeq(@, LAMBDA u : u # p.url), p.url)]
    /\ swPuts' = swPuts \ {p}
    /\ UNCHANGED <<worker, swHandlers, swLast, swNext>>
    /\ UNCHANGED nonSwVars

\* The caches after the install event: cache.addAll of the assets of the
\* worker, or nothing when addAll failed (the failure is only logged).
Installed(w) ==
    IF w = "service-worker.js"
    THEN [NoCaches EXCEPT ![STATIC_CACHE] = <<"/", "/static/css/main.css">>]
    ELSE [NoCaches EXCEPT ![TWOSIDES_CACHE] = <<"/", "/static/css/main.css", OFFLINE_URL>>]

InitSW ==
    /\ InitApp
    /\ InitWidgets
    /\ worker \in Workers
    /\ swCaches \in {Installed(worker), NoCaches}
    /\ swHandlers = {}
    /\ swPuts = {}
    /\ swLast = NoAnswer
    /\ swNext = 1

NextSW ==
    \/ \E request \in Requests : FetchEvent(request)
    \/ \E h \in swHandlers : \E outcome \in {"ok", "error", "failed"} : NetworkDone(h, outcome)
    \/ \E h \in swHandlers : Cleanup(h)
    \/ \E p \in swPuts : PutDone(p)

SpecSW == InitSW /\ [][NextSW]_vars

(***************************************************************************)
(* Properties checked under SpecSW.                                        *)
(***************************************************************************)

C19_ApiNetworkFirst ==
    [][/\ \A request \in Requests :
             (FetchEvent(request) /\ request.path = "api") =>
                 /\ swLast' = swLast
                 /\ \E h \in swHandlers' \ swHandlers :
                       h.request = request /\ h.pc = "fetch"
       /\ \A h \in swHandlers :
             h.request.path = "api" =>
                 /\ \A outcome \in {"ok", "error"} :
                       NetworkDone(h, outcome) =>
                           \/ swLast' = swLast /\ [h EXCEPT !.pc = "cleanup"] \in swHandlers'
                           \/ swLast'.n = h.n /\ swLast'.from = "network"
                 /\ Cleanup(h) => (swLast'.n = h.n /\ swLast'.from = "network")
       /\ (swLast' # swLast /\ swLast'.from = "cache" /\ swLast'.route \in {"api", "default"}) =>
             \E h \in swHandlers : h.n = swLast'.n /\ NetworkDone(h, "failed")]_vars

C19_Witness ==
    /\ swLast.route = "api"
    /\ swLast.from = "cache"
    /\ swLast.url = R_stats.url

\* C23: every intercepted GET is answered with a response, from the
\* network, from a cache or synthesized: no handler resolves with no
\* response and none rejects, whatever fails and whatever the caches hold.
C23_AlwaysAnswered ==
    swLast.from \notin {"undefined", "rejected"}

(***************************************************************************)
(* The worker of service-worker.js with caches that have reached their     *)
(* configured size: API_CACHE and IMAGE_CACHE hold 100 responses and       *)
(* DYNAMIC_CACHE 50, stored by earlier requests.                           *)
(***************************************************************************)
\* The URLs of n earlier requests.
Earlier(prefix, n) == [i \in 1..n |-> prefix \o ToString(i)]

FullCaches ==
    [Installed("service-worker.js") EXCEPT
        ![API_CACHE] = Earlier("/api/news/", maxEntries(API_CACHE)),
        ![IMAGE_CACHE] = Earlier("/media/", maxEntries(IMAGE_CACHE)),
        ![DYNAMIC_CACHE] = Earlier("/feed/", maxEntries(DYNAMIC_CACHE))]

InitSWFull ==
    /\ InitApp
    /\ InitWidgets
    /\ worker = "service-worker.js"
    /\ swCaches = FullCaches
    /\ swHandlers = {}
    /\ swPuts = {}
    /\ swLast = NoAnswer
    /\ swNext = 1

SpecSWFull == InitSWFull /\ [][NextSW]_vars

\* C24: once the worker has finished handling an API, image or dynamic
\* request (the handler has answered and no cache.put is outstanding), the
\* cache of that route holds at most its maxEntries entries.
C24_CacheBounded ==
    (/\ swHandlers = {}
     /\ swPuts = {}
     /\ swLast.route \in {"api", "image", "dynamic"})
    => Len(swCaches[StoreCache(swLast.route)]) <= maxEntries(StoreCache(swLast.route))

(***************************************************************************)
(* NewsFeed.js: the articles query and its automatic retries.  The library *)
(* calls retry(failureCount, error) after every failed request, with the   *)
(* number of earlier failures of the run and the error the query function  *)
(* threw; it sends the request again when retry answers true.              *)
(***************************************************************************)
MAX_RETRIES == 3

MaxRuns == 2

\* How axios.get may fail: kind "http" is an answer with an error status.
AxiosError(kind, status) == [kind |-> kind, status |-> status]

AxiosErrors ==
    { AxiosError("timeout", 0), AxiosError("network", 0), AxiosError("offline", 0),
      AxiosError("http", 400), AxiosError("http", 403), AxiosError("http", 404),
      AxiosError("http", 429), AxiosError("http", 500) }

\* NewsFeed.js 529-550: the catch block of fetchArticles throws a new
\* Error that carries a message only; the response of the axios error is
\* not copied to it.
fetchArticles_catch(e) ==
    [hasResponse |-> FALSE, status |-> 0,
     message |->
        CASE e.kind = "timeout" -> "Request timeout"
          [] e.kind = "http" /\ e.status = 429 -> "Too many requests"
          [] e.kind = "http" /\ e.status = 500 -> "Server error"
          [] e.kind = "http" /\ e.status = 404 -> "News service not found"
          [] e.kind = "http" /\ e.status = 403 -> "Access denied"
          [] e.kind = "offline" -> "No internet connection"
          [] OTHER -> "Unable to load news"]

\* NewsFeed.js 680-690
retry(failureCount, err) ==
    IF err.hasResponse /\ err.status >= 400 /\ err.status < 500 /\ err.status # 429
    THEN FALSE
    ELSE failureCount < MAX_RETRIES

Query_start ==
    /\ articlesQuery.status \in {"idle", "success", "error"}
    /\ articlesQuery.run < MaxRuns
    /\ articlesQuery' = [IdleQuery EXCEPT !.status = "fetching",
                                          !.run = articlesQuery.run + 1,
                                          !.requests = 1]
    /\ UNCHANGED nonQueryVars

Query_success ==
    /\ articlesQuery.status = "fetching"
    /\ articlesQuery' = [articlesQuery EXCEPT !.status = "success", !.http = 200,
                                               !.message = "", !.manual = 0]
    /\ UNCHANGED nonQueryVars

Query_failure(e) ==
    /\ articlesQuery.status = "fetching"
    /\ LET thrown == fetchArticles_catch(e)
       IN  articlesQuery' =
             IF retry(articlesQuery.failureCount, thrown)
             THEN [articlesQuery EXCEPT !.status = "retrying",
                                        !.failureCount = @ + 1,
                                        !.http = e.status, !.message = thrown.message]
             ELSE [articlesQuery EXCEPT !.status = "error",
                                        !.http = e.status, !.message = thrown.message]
    /\ UNCHANGED nonQueryVars

\* retryDelay has passed: the request is sent again.
Query_retry ==
    /\ articlesQuery.status = "retrying"
    /\ articlesQuery' = [articlesQuery EXCEPT !.status = "fetching",
                                               !.requests = @ + 1, !.retries = @ + 1]
    /\ UNCHANGED nonQueryVars

NextQuery ==
    \/ Query_start
    \/ Query_success
    \/ \E e \in AxiosErrors : Query_failure(e)
    \/ Query_retry

SpecQuery == Init /\ [][NextQuery]_vars

(***************************************************************************)
(* Properties checked under SpecQuery.                                     *)
(***************************************************************************)

\* C20: when the server answered the articles request with a client error
\* (4xx other than 429) the query is not retried; any other failure is
\* retried at most MAX_RETRIES times.
C20_NoRetryOnClientError ==
    [][/\ \A e \in AxiosErrors :
             (/\ Query_failure(e)
              /\ e.kind = "http" /\ e.status >= 400 /\ e.status < 500 /\ e.status # 429)
             => articlesQuery'.status = "error"
       /\ articlesQuery'.retries <= MAX_RETRIES]_vars

(***************************************************************************)
(* NewsFeed.js: the retry button of the error state.  handleRetry is an    *)
(* async function: it returns at once when the attempts recorded under its *)
(* key have reached MAX_RETRIES, otherwise it records an attempt, waits    *)
(* RETRY_DELAY * 2^attempts, calls refetchArticles and waits for it.       *)
(***************************************************************************)
MaxClicks == 4

\* NewsFeed.js 768: `${viewMode}-${Date.now()}`
retryKey(viewMode, now) == <<viewMode, now>>

\* NewsFeed.js 769: retryAttempts[retryKey] || 0
currentAttempts(key) ==
    IF key \in DOMAIN retryAttempts THEN retryAttempts[key] ELSE 0

\* NewsFeed.js 767-779: the button is drawn by the error state (849-859);
\* the call reads the clock, checks the attempts of its key, records one
\* more and starts to wait.
handleRetry(now) ==
    /\ articlesQuery.status = "error"
    /\ articlesQuery.manual + Len(retryCalls) < MaxClicks
    /\ LET key == retryKey("articles", now)
       IN  IF currentAttempts(key) >= MAX_RETRIES
           THEN UNCHANGED retryVars
           ELSE /\ retryAttempts' =
                      [k \in DOMAIN retryAttempts \cup {key} |->
                          IF k = key THEN currentAttempts(key) + 1 ELSE retryAttempts[k]]
                /\ retryCalls' = Append(retryCalls, [key |-> key, phase |-> "delay"])
    /\ UNCHANGED <<queryVars, nonRetryVars>>

\* NewsFeed.js 780-783: the delay has passed and refetchArticles is called.
\* A fetch that is already under way is joined; otherwise the query
\* function is called again, with a failure count of zero.
handleRetry_refetch(i) ==
    /\ i \in DOMAIN retryCalls
    /\ retryCalls[i].phase = "delay"
    /\ retryCalls' = [retryCalls EXCEPT ![i].phase = "refetch"]
    /\ articlesQuery' =
          IF articlesQuery.status \in {"fetching", "retrying"}
          THEN articlesQuery
          ELSE [articlesQuery EXCEPT !.status = "fetching", !.failureCount = 0,
                                     !.requests = 1, !.retries = 0,
                                     !.manual = @ + 1]
    /\ UNCHANGED <<retryAttempts, nonRetryVars>>

\* NewsFeed.js 783-794: refetchArticles has settled.  The key is deleted
\* when the promise resolved; a rejected promise (the library decides
\* whether a failed refetch rejects) leaves the attempts as they are.
handleRetry_settled(i, rejected) ==
    /\ i \in DOMAIN retryCalls
    /\ retryCalls[i].phase = "refetch"
    /\ articlesQuery.status \in {"success", "error"}
    /\ rejected => articlesQuery.status = "error"
    /\ retryAttempts' =
          IF rejected
          THEN retryAttempts
          ELSE [k \in DOMAIN retryAttempts \ {retryCalls[i].key} |-> retryAttempts[k]]
    /\ retryCalls' = [j \in 1..(Len(retryCalls) - 1) |->
                         IF j < i THEN retryCalls[j] ELSE retryCalls[j + 1]]
    /\ UNCHANGED <<queryVars, nonRetryVars>>

NextRetry ==
    \/ Query_start
    \/ Query_success
    \/ \E e \in AxiosErrors : Query_failure(e)
    \/ Query_retry
    \/ \E now \in Clock : handleRetry(now)
    \/ \E i \in DOMAIN retryCalls : handleRetry_refetch(i)
    \/ \E i \in DOMAIN retryCalls : \E rejected \in BOOLEAN : handleRetry_settled(i, rejected)

SpecRetry == Init /\ [][NextRetry]_vars

(***************************************************************************)
(* Properties checked under SpecRetry.                                     *)
(***************************************************************************)

\* C21: for one failed load, handleRetry starts at most MAX_RETRIES
\* fetches, however often the retry button is used while the load keeps
\* failing.
C21_ManualRetriesBounded ==
    articlesQuery.manual <= MAX_RETRIES

(***************************************************************************)
(* The search inputs: FilterSidebar (src/unnamed/part_001) and the feed    *)
(* (src/src/components/newsfeed.js).  Time is counted in ms and advances   *)
(* in steps of 100 ms; a timer runs its callback when its time has come.   *)
(***************************************************************************)
MaxTyped == 3

MaxTime == 1000

SearchComponents == {"FilterSidebar", "newsfeed"}

Terms == {"n", "ne", "new"}

\* part_001 86: setTimeout(..., 300); newsfeed.js 364: setTimeout(..., 500)
SearchDelay(component) == IF component = "FilterSidebar" THEN 300 ELSE 500

\* part_001 81-87 and 104-108, newsfeed.js 358-367: the value is stored and
\* a timer is started.  debouncedSearch declares timeoutId in its own body,
\* so clearTimeout(timeoutId) clears nothing; the function newsfeed.js
\* returns (367) is dropped by the onChange handler (785).
handleSearchChange(term) ==
    /\ Len(searchTyped) < MaxTyped
    /\ searchBox' = [searchBox EXCEPT !.value = term]
    /\ searchTyped' = Append(searchTyped, [term |-> term, at |-> searchClock])
    /\ searchTimers' = searchTimers \cup
          {[k |-> Len(searchTyped) + 1, term |-> term,
            due |-> searchClock + SearchDelay(searchBox.component)]}
    /\ UNCHANGED <<searchClock, searchCalls>>
    /\ UNCHANGED nonSearchVars

\* The callback of a timer: onSearch(query), handleFilterChange({ search: term }).
SearchTimeout(timer) ==
    /\ timer \in searchTimers
    /\ timer.due <= searchClock
    /\ searchTimers' = searchTimers \ {timer}
    /\ searchCalls' = Append(searchCalls, [k |-> timer.k, term |-> timer.term])
    /\ UNCHANGED <<searchBox, searchClock, searchTyped>>
    /\ UNCHANGED nonSearchVars

\* 100 ms pass; the timers that are due have run.
SearchTick ==
    /\ searchClock < MaxTime
    /\ \A timer \in searchTimers : timer.due > searchClock
    /\ searchClock' = searchClock + 100
    /\ UNCHANGED <<searchBox, searchTimers, searchTyped, searchCalls>>
    /\ UNCHANGED nonSearchVars

InitSearch ==
    /\ InitApp
    /\ InitNoWorker
    /\ \E component \in SearchComponents : InitSearchBox(component)
    /\ InitNoTheme
    /\ InitNoCtx
    /\ InitNoSidebar

NextSearch ==
    \/ \E term \in Terms : handleSearchChange(term)
    \/ \E timer \in searchTimers : SearchTimeout(timer)
    \/ SearchTick

SpecSearch == InitSearch /\ [][NextSearch]_vars

(***************************************************************************)
(* Properties checked under SpecSearch.                                    *)
(***************************************************************************)

\* C25: a term that was followed by another term within the debounce
\* window of its component (300 ms in the sidebar, 500 ms in the feed)
\* triggers no search, and no term triggers more than one search.
C25_Debounced ==
    /\ \A i \in DOMAIN searchCalls :
          ~\E j \in DOMAIN searchTyped :
              /\ j > searchCalls[i].k
              /\ searchTyped[j].at - searchTyped[searchCalls[i].k].at
                    < SearchDelay(searchBox.component)
    /\ \A i, j \in DOMAIN searchCalls :
          searchCalls[i].k = searchCalls[j].k => i = j

(***************************************************************************)
(* The theme provider of src/unnamed/part_004.  customizations is the set  *)
(* of the keys that were customized; an action is a record with its type   *)
(* and payload.                                                            *)
(***************************************************************************)
MaxApply == 2

\* part_004 4-56: the keys of THEMES
ThemeNames == {"light", "dark", "auto"}

AccessibilityKeys == {"highContrast", "reducedMotion", "largerText"}

\* part_004 82-139
themeReducer(state, action) ==
    CASE action.type = "SET_THEME" ->
            [state EXCEPT !.currentTheme = action.payload,
                          !.actualTheme = IF action.payload = "auto"
                                          THEN state.systemPreference
                                          ELSE action.payload]
      [] action.type = "SET_SYSTEM_PREFERENCE" ->
            [state EXCEPT !.systemPreference = action.payload,
                          !.actualTheme = IF state.currentTheme = "auto"
                                          THEN action.payload
                                          ELSE state.actualTheme]
      [] action.type = "SET_TRANSITIONING" ->
            [state EXCEPT !.isTransitioning = action.payload]
      [] action.type = "UPDATE_CUSTOMIZATIONS" ->
            [state EXCEPT !.customizations = @ \cup action.payload]
      [] action.type = "UPDATE_ACCESSIBILITY" ->
            [state EXCEPT !.accessibility =
                [k \in AccessibilityKeys |->
                    IF k \in DOMAIN action.payload THEN action.payload[k] ELSE @[k]]]
      [] action.type = "RESET_THEME" ->
            [INITIAL_STATE EXCEPT !.systemPreference = state.systemPreference]
      [] OTHER -> state

Dispatch(type, payload) == [type |-> type, payload |-> payload]

\* What the effect of lines 201-267 depends on (compared by value).
ThemeDeps(state) == <<state.actualTheme, state.customizations, state.accessibility>>

\* The provider renders with the state after; the effect of applyTheme is
\* due when its dependencies changed.
ThemeRender(after, fresh) ==
    /\ themeState' = after
    /\ themeDom' = [themeDom EXCEPT !.dirty =
                        @ \/ fresh \/ ThemeDeps(after) # ThemeDeps(themeState)]

\* part_004 148-187: the provider is mounted; dark says what matchMedia
\* answers, highContrast and reducedMotion likewise.
ThemeMount(dark, highContrast, reducedMotion) ==
    /\ ~themeDom.mounted
    /\ LET s1 == themeReducer(themeState,
                     Dispatch("SET_SYSTEM_PREFERENCE", IF dark THEN "dark" ELSE "light"))
           s2 == themeReducer(s1,
                     Dispatch("SET_THEME", IF themeStorage.theme # <<>>
                                           THEN themeStorage.theme[1] ELSE "auto"))
           s3 == IF themeStorage.customizations # <<>>
                 THEN themeReducer(s2, Dispatch("UPDATE_CUSTOMIZATIONS",
                                                themeStorage.customizations[1]))
                 ELSE s2
           s4 == themeReducer(s3,
                     Dispatch("UPDATE_ACCESSIBILITY",
                              IF themeStorage.accessibility # <<>>
                              THEN themeStorage.accessibility[1]
                              ELSE [highContrast |-> highContrast,
                                    reducedMotion |-> reducedMotion,
                                    largerText |-> FALSE]))
       IN  /\ themeState' = s4
           /\ themeDom' = [themeDom EXCEPT !.mounted = TRUE, !.dirty = TRUE]
    /\ UNCHANGED themeStorage
    /\ UNCHANGED nonThemeVars

\* part_004 192-195: the system colour scheme changed.
Theme_handleChange(matches) ==
    /\ themeDom.mounted
    /\ ThemeRender(themeReducer(themeState,
            Dispatch("SET_SYSTEM_PREFERENCE", IF matches THEN "dark" ELSE "light")), FALSE)
    /\ UNCHANGED themeStorage
    /\ UNCHANGED nonThemeVars

\* part_004 291-306
setTheme(themeName) ==
    /\ themeDom.mounted
    /\ IF themeName \notin ThemeNames
       THEN UNCHANGED <<themeState, themeDom>>
       ELSE ThemeRender(themeReducer(themeState, Dispatch("SET_THEME", themeName)), FALSE)
    /\ UNCHANGED themeStorage
    /\ UNCHANGED nonThemeVars

\* part_004 309-312
toggleTheme ==
    setTheme(IF themeState.actualTheme = "light" THEN "dark" ELSE "light")

\* part_004 315-317
updateCustomizations(customizations) ==
    /\ themeDom.mounted
    /\ ThemeRender(themeReducer(themeState,
            Dispatch("UPDATE_CUSTOMIZATIONS", customizations)), TRUE)
    /\ UNCHANGED themeStorage
    /\ UNCHANGED nonThemeVars

\* part_004 320-329
updateAccessibility(accessibilitySettings) ==
    /\ themeDom.mounted
    /\ ThemeRender(themeReducer(themeState,
            Dispatch("UPDATE_ACCESSIBILITY", accessibilitySettings)), TRUE)
    /\ UNCHANGED themeStorage
    /\ UNCHANGED nonThemeVars

\* part_004 331-339
resetTheme ==
    /\ themeDom.mounted
    /\ ThemeRender(themeReducer(themeState, Dispatch("RESET_THEME", "")), FALSE)
    /\ themeStorage' = NoThemeStorage
    /\ UNCHANGED nonThemeVars

\* part_004 201-267: applyTheme up to its delay of 100 ms.  It sets the
\* class of the document and stores the preferences of the state it was
\* rendered with.
applyTheme ==
    /\ themeDom.mounted
    /\ themeDom.dirty
    /\ themeDom.applying < MaxApply
    /\ themeState' = themeReducer(themeState, Dispatch("SET_TRANSITIONING", TRUE))
    /\ themeDom' = [themeDom EXCEPT !.dirty = FALSE,
                                    !.class = themeState.actualTheme,
                                    !.applying = @ + 1]
    /\ themeStorage' = [theme |-> <<themeState.currentTheme>>,
                        customizations |-> <<themeState.customizations>>,
                        accessibility |-> <<themeState.accessibility>>]
    /\ UNCHANGED nonThemeVars

\* The finally block of applyTheme.
applyTheme_finally ==
    /\ themeDom.applying > 0
    /\ themeState' = themeReducer(themeState, Dispatch("SET_TRANSITIONING", FALSE))
    /\ themeDom' = [themeDom EXCEPT !.applying = @ - 1]
    /\ UNCHANGED themeStorage
    /\ UNCHANGED nonThemeVars

\* The page is closed; localStorage stays.
ThemeUnmount ==
    /\ themeDom.mounted
    /\ themeDom.applying = 0
    /\ themeState' = INITIAL_STATE
    /\ themeDom' = [mounted |-> FALSE, class |-> "", dirty |-> FALSE, applying |-> 0]
    /\ UNCHANGED themeStorage
    /\ UNCHANGED nonThemeVars

InitTheme ==
    /\ InitApp
    /\ InitNoWorker
    /\ InitSearchBox("FilterSidebar")
    /\ InitNoTheme
    /\ InitNoCtx
    /\ InitNoSidebar

NextTheme ==
    \/ \E dark, highContrast, reducedMotion \in BOOLEAN :
          ThemeMount(dark, highContrast, reducedMotion)
    \/ \E matches \in BOOLEAN : Theme_handleChange(matches)
    \/ \E themeName \in ThemeNames \cup {"sepia"} : setTheme(themeName)
    \/ toggleTheme
    \/ \E key \in {"colors", "shadows"} : updateCustomizations({key})
    \/ \E key \in AccessibilityKeys : \E on \in BOOLEAN :
          updateAccessibility([k \in {key} |-> on])
    \/ resetTheme
    \/ applyTheme
    \/ applyTheme_finally
    \/ ThemeUnmount

SpecTheme == InitTheme /\ [][NextTheme]_vars

(***************************************************************************)
(* Properties checked under SpecTheme.                                     *)
(***************************************************************************)

\* C26: in every state of the theme, when currentTheme is 'auto' the
\* applied actualTheme is the systemPreference.
C26_AutoFollowsSystem ==
    themeState.currentTheme = "auto" =>
        themeState.actualTheme = themeState.systemPreference

(***************************************************************************)
(* The theme provider of src/src/ThemeContext.js.  React runs the effects  *)
(* of a render before it handles the next event, so a render and its       *)
(* effects are one step.                                                   *)
(***************************************************************************)
MaxShown == 5

Schemes == {"light", "dark"}

\* ThemeContext.js 20-31: the effect of a render with a new theme.
ThemeContext_effect(theme) ==
    /\ ctxDom' = Append(ctxDom, theme)
    /\ ctxStorage' = theme

\* ThemeContext.js 6-11 and 20-47: the first render and its effects.
ThemeContext_mount ==
    /\ ~ctxMounted
    /\ Len(ctxDom) < MaxShown
    /\ ctxMounted' = TRUE
    /\ ctxTheme' = IF ctxStorage # "" THEN ctxStorage ELSE ctxSystem
    /\ ThemeContext_effect(ctxTheme')
    /\ UNCHANGED <<ctxSystem, ctxToggled>>
    /\ UNCHANGED nonCtxVars

\* ThemeContext.js 13-17
ThemeContext_toggleTheme ==
    /\ ctxMounted
    /\ Len(ctxDom) < MaxShown
    /\ ctxTheme' = IF ctxTheme = "light" THEN "dark" ELSE "light"
    /\ ThemeContext_effect(ctxTheme')
    /\ ctxToggled' = TRUE
    /\ UNCHANGED <<ctxMounted, ctxSystem>>
    /\ UNCHANGED nonCtxVars

\* ThemeContext.js 36-41: the 'change' event of the media query.
ThemeContext_handleChange(matches) ==
    /\ ctxMounted
    /\ ctxSystem' = IF matches THEN "dark" ELSE "light"
    /\ ctxSystem' # ctxSystem
    /\ IF ctxStorage = ""
       THEN /\ ctxTheme' = ctxSystem'
            /\ IF ctxTheme' # ctxTheme
               THEN ThemeContext_effect(ctxTheme')
               ELSE UNCHANGED <<ctxDom, ctxStorage>>
       ELSE UNCHANGED <<ctxTheme, ctxDom, ctxStorage>>
    /\ UNCHANGED <<ctxMounted, ctxToggled>>
    /\ UNCHANGED nonCtxVars

\* The colour scheme changes while the page is closed.
SchemeChanged(scheme) ==
    /\ ~ctxMounted
    /\ scheme # ctxSystem
    /\ ctxSystem' = scheme
    /\ UNCHANGED <<ctxMounted, ctxTheme, ctxStorage, ctxDom, ctxToggled>>
    /\ UNCHANGED nonCtxVars

\* The page is closed; localStorage stays.
ThemeContext_unmount ==
    /\ ctxMounted
    /\ ctxMounted' = FALSE
    /\ ctxTheme' = ""
    /\ UNCHANGED <<ctxStorage, ctxSystem, ctxDom, ctxToggled>>
    /\ UNCHANGED nonCtxVars

InitCtx ==
    /\ InitApp
    /\ InitNoWorker
    /\ InitSearchBox("FilterSidebar")
    /\ InitNoTheme
    /\ InitNoSidebar
    /\ ctxMounted = FALSE
    /\ ctxTheme = ""
    /\ ctxStorage = ""
    /\ ctxSystem \in Schemes
    /\ ctxDom = <<>>
    /\ ctxToggled = FALSE

NextCtx ==
    \/ ThemeContext_mount
    \/ ThemeContext_toggleTheme
    \/ \E matches \in BOOLEAN : ThemeContext_handleChange(matches)
    \/ \E scheme \in Schemes : SchemeChanged(scheme)
    \/ ThemeContext_unmount

SpecCtx == InitCtx /\ [][NextCtx]_vars

(***************************************************************************)
(* Properties checked under SpecCtx.                                       *)
(***************************************************************************)

\* C27: while the user has not toggled the theme, a change of the system
\* colour scheme changes the theme of the app to that scheme.
C27_FollowsSystemUntilToggled ==
    [][\A matches \in BOOLEAN :
          (ThemeContext_handleChange(matches) /\ ~ctxToggled)
          => ctxTheme' = (IF matches THEN "dark" ELSE "light")]_vars

(***************************************************************************)
(* The recent searches of src/src/components/SidebarWithFilters.js.  A     *)
(* query is a tuple of characters, so that String.prototype.trim removes   *)
(* the blanks at both ends.                                                *)
(***************************************************************************)
RecentLimit == 5

Queries ==
    { <<>>, <<" ">>, <<"a">>, <<"b">>, <<"c">>, <<"d">>, <<"e">>, <<"f">>, <<"a", " ">> }

RECURSIVE trim(_)
trim(q) ==
    IF q = <<>> THEN q
    ELSE IF Head(q) = " " THEN trim(Tail(q))
    ELSE IF q[Len(q)] = " " THEN trim(SubSeq(q, 1, Len(q) - 1))
    ELSE q

\* Array.prototype.slice(0, n)
Slice(list, n) == SubSeq(list, 1, IF Len(list) < n THEN Len(list) ELSE n)

\* The new list without the filter that removes the query from the old one.
updated_NoFilter(query, prev) == Slice(<<query>> \o prev, RecentLimit)

\* SidebarWithFilters.js 47
updated(query, prev) ==
    Slice(<<query>> \o SelectSeq(prev, LAMBDA other : other # query), RecentLimit)

\* SidebarWithFilters.js 44-57: the effect of a render with a new searchQuery.
SaveRecent(query, prev) ==
    IF trim(query) # <<>>
    THEN /\ recentSearches' = updated(query, prev)
         /\ recentStorage' = <<updated(query, prev)>>
    ELSE /\ recentSearches' = prev
         /\ recentStorage' = recentStorage

\* App.js 201-203: setSearchQuery(query); a sidebar that is on screen is
\* rendered again and runs its effect when the query changed.
App_handleSearch(query) ==
    /\ searchQuery' = query
    /\ IF sidebarMounted /\ query # searchQuery
       THEN SaveRecent(query, recentSearches)
       ELSE UNCHANGED <<recentSearches, recentStorage>>
    /\ UNCHANGED sidebarMounted
    /\ UNCHANGED nonRecentVars

\* SidebarWithFilters.js 27-57, App.js 303: the sidebar is opened; the
\* stored list is loaded, then the effect of searchQuery runs.
Sidebar_mount ==
    /\ ~sidebarMounted
    /\ sidebarMounted' = TRUE
    /\ SaveRecent(searchQuery,
                  IF recentStorage # <<>> THEN Slice(recentStorage[1], RecentLimit)
                  ELSE recentSearches)
    /\ UNCHANGED searchQuery
    /\ UNCHANGED nonRecentVars

\* App.js 314: onClose
Sidebar_unmount ==
    /\ sidebarMounted
    /\ sidebarMounted' = FALSE
    /\ recentSearches' = <<>>
    /\ UNCHANGED <<searchQuery, recentStorage>>
    /\ UNCHANGED nonRecentVars

\* SidebarWithFilters.js 376-381: the button Clear Recent Searches.
clearRecent ==
    /\ sidebarMounted
    /\ Len(recentSearches) > 0
    /\ recentSearches' = <<>>
    /\ recentStorage' = <<>>
    /\ UNCHANGED <<searchQuery, sidebarMounted>>
    /\ UNCHANGED nonRecentVars

InitRecent ==
    /\ InitApp
    /\ InitNoWorker
    /\ InitSearchBox("FilterSidebar")
    /\ InitNoTheme
    /\ InitNoCtx
    /\ InitNoSidebar

NextRecent ==
    \/ \E query \in Queries : App_handleSearch(query)
    \/ Sidebar_mount
    \/ Sidebar_unmount
    \/ clearRecent

SpecRecent == InitRecent /\ [][NextRecent]_vars

(***************************************************************************)
(* Properties checked under SpecRecent.                                    *)
(***************************************************************************)

\* A list of at most five entries without duplicates.
RecentOk(list) ==
    /\ Len(list) <= 5
    /\ \A i, j \in DOMAIN list : list[i] = list[j] => i = j

====
